---- MODULE Spec2Model ----
(***************************************************************************)
(* A model of the stateful parts of plopp: the debounce timer and the      *)
(* Cut3dTool and TriCutTool of widgets/cut3d.py, the ClippingPlanes of     *)
(* widgets/clip3d.py, the axis limits of the matplotlib Canvas, the colour *)
(* limits of graphics/colormapper.py, the matplotlib Scatter artist and    *)
(* the event handler of the inspector.                                     *)
(*                                                                         *)
(* The specifications share the module, one per component:                 *)
(*   SpecCut        debounce + Cut3dTool (time in tenths of a second)      *)
(*   SpecCanvas     Canvas.autoscale / logx / logy / crop and the setters  *)
(*   SpecMapper     ColorMapper.update / autoscale / toggle_norm / rgba    *)
(*   SpecPlanes     ClippingPlanes and its Clip3dTool cuts                 *)
(*   SpecTriCut     TriCutTool and its Cut3dTool tabs                      *)
(*   SpecScatter    scatter() and Scatter.update                           *)
(*   SpecInspector  InspectorEventHandler                                  *)
(* Each keeps the variables of the other components at their initial value.*)
(***************************************************************************)
EXTENDS Integers, Sequences, FiniteSets, TLC

VARIABLES
    \* ---- the asyncio event loop and the debounce closure (cut3d.py) ----
    now,            \* the loop's clock, in tenths of a second
    tasks,          \* the Timer._job tasks the loop holds, not yet run or cancelled
    timer,          \* the closure variable `timer` of debounce.decorator
    \* ---- the Cut3dTool instances and the view they draw on ----
    slider,         \* slider[t] = [value |-> <<lo, hi>>, disabled |-> BOOLEAN]
    outlines,       \* outlines[t] = [position |-> <<p0, p1>>, visible |-> BOOLEAN]
    select_nodes,   \* select_nodes[t] : original node -> id of its selection node
    children,       \* the cut point clouds of the view (ScatterFig._children)
    \* ---- history (observation only): the last debounced call (when, with
    \* which arguments, 1 or 2 = several calls in its burst), the runs of the
    \* wrapped function since that call, and the last handler that ran ----
    hist,
    \* ---- the matplotlib Canvas (backends/matplotlib/canvas.py) ----
    canvas,         \* the Canvas object: _autoscale, _user_vmin/_vmax, _xmin.._ymax
    ax,             \* its matplotlib axes: lines, collections, scales, view limits
    chist,          \* observation only: what the last Canvas call showed
    \* ---- the ColorMapper (graphics/colormapper.py) ----
    mapper,         \* the ColorMapper object
    artists,        \* mapper.children in insertion order: key, data, colors
    mhist,          \* observation only: the last ColorMapper call, how it ended
                    \* and whether it set the children's colours
    \* ---- the ClippingPlanes widget (widgets/clip3d.py) ----
    planes,         \* the ClippingPlanes object: cuts, _operation, _nodes, controls
    planes_view,    \* its view: the cut point clouds and the opacity of the originals
    phist,          \* observation only: whether every ClippingPlanes handler so far
                    \* was an add, delete or hide/show click, and whether the last
                    \* handler ended in update_state
    \* ---- the TriCutTool widget (widgets/cut3d.py) ----
    tricut,         \* the TriCutTool object: its Cut3dTool tabs and the opacity field
    fig,            \* its figure: the cut point clouds and the opacity of the originals
    thist,          \* observation only: whether every TriCutTool handler so far
                    \* was an add, delete or eye click
    \* ---- the matplotlib Scatter artist (backends/matplotlib/scatter.py) ----
    scatter_artist, \* the Scatter object made by scatter(): _data, _size, the
                    \* _scatter and _mask collections; None when scatter() raised
    shist,          \* observation only: the last call, its size argument and how
                    \* it ended
    \* ---- the inspector (functions/inspector.py) ----
    handler,        \* the InspectorEventHandler: _event_nodes, the slice nodes
                    \* made from them, and the points on the 2d figure
    fig1d,          \* the 1d figure: its artists by the id of their node
    ihist           \* observation only: the last handler that ran and the keys of
                    \* the updates the 1d figure received in it

cutVars == <<now, tasks, timer, slider, outlines, select_nodes, children, hist>>

canvasVars == <<canvas, ax, chist>>

mapperVars == <<mapper, artists, mhist>>

planesVars == <<planes, planes_view, phist>>

tricutVars == <<tricut, fig, thist>>

scatterVars == <<scatter_artist, shist>>

inspectorVars == <<handler, fig1d, ihist>>

vars == <<cutVars, canvasVars, mapperVars, planesVars, tricutVars, scatterVars,
          inspectorVars>>

otherThanCut ==
    <<canvasVars, mapperVars, planesVars, tricutVars, scatterVars,
      inspectorVars>>
otherThanCanvas ==
    <<cutVars, mapperVars, planesVars, tricutVars, scatterVars,
      inspectorVars>>
otherThanMapper ==
    <<cutVars, canvasVars, planesVars, tricutVars, scatterVars,
      inspectorVars>>
otherThanPlanes ==
    <<cutVars, canvasVars, mapperVars, tricutVars, scatterVars,
      inspectorVars>>
otherThanTriCut ==
    <<cutVars, canvasVars, mapperVars, planesVars, scatterVars,
      inspectorVars>>
otherThanScatter ==
    <<cutVars, canvasVars, mapperVars, planesVars, tricutVars,
      inspectorVars>>
otherThanInspector ==
    <<cutVars, canvasVars, mapperVars, planesVars, tricutVars, scatterVars>>

(***************************************************************************)
(*                     numbers, units and limits                           *)
(*                                                                         *)
(* Numbers of the Canvas and of the ColorMapper are counted in tenths, so  *)
(* that the 0.1 and the 0.5 of core/limits.py are whole; the data values   *)
(* used are even, so that halving one is exact.                            *)
(***************************************************************************)

\* np.inf; np.NINF is -Inf. Every number of the data is far inside.
Inf == 1000000

None == [kind |-> "None"]

Min2(a, b) == IF a <= b THEN a ELSE b
Max2(a, b) == IF a >= b THEN a ELSE b
SetMin(S) == CHOOSE v \in S : \A w \in S : v <= w
SetMax(S) == CHOOSE v \in S : \A w \in S : v >= w
Abs(v) == IF v < 0 THEN -v ELSE v

\* core.limits.find_limits: the smallest and the largest value, of the
\* positive values alone on a log scale, and (0.1, 1.0) when a log scale has
\* no positive value.
find_limits(values, scale) ==
    IF scale = "log"
    THEN LET positives == {v \in values : v > 0}
         IN  IF positives = {} THEN <<1, 10>>
             ELSE <<SetMin(positives), SetMax(positives)>>
    ELSE <<SetMin(values), SetMax(values)>>

\* core.limits.fix_empty_range: a range of one point v is widened by 0.5 * |v|
\* on each side, by 0.5 when v is 0.
fix_empty_range(lims) ==
    IF lims[1] # lims[2] THEN lims
    ELSE LET dx == IF lims[1] = 0 THEN 5 ELSE Abs(lims[1]) \div 2
         IN  <<lims[1] - dx, lims[2] + dx>>

\* The size of one unit in hundredths of the base unit of its dimension.
UnitScale == [m |-> 100, cm |-> 1, K |-> 100, cK |-> 1]

\* core.utils.maybe_variable_to_number: a plain number as it is, a Variable
\* converted to `unit` (when one is given, "None" otherwise) and stripped of
\* it.
maybe_variable_to_number(x, unit) ==
    IF x.kind = "Variable"
    THEN IF unit # "None" /\ unit # x.unit
         THEN (x.value * UnitScale[x.unit]) \div UnitScale[unit]
         ELSE x.value
    ELSE x.value

(***************************************************************************)
(*                       debounce and Cut3dTool                            *)
(***************************************************************************)

\* The last instant the model runs to.
MaxTime == 5

\* @debounce(0.3) on Cut3dTool.update_cut, in tenths of a second.
Wait == 3

\* The Cut3dTool instances, named by their direction.
Tools == {"x", "y"}

\* The original nodes handed to the tools (self._nodes), in iteration order.
NodeSeq == <<"a", "b">>

\* The data of the original nodes: the coordinates of their points.
Points == [a |-> {[x |-> 10, y |-> 10], [x |-> 12, y |-> 4]},
           b |-> {[x |-> 16, y |-> 10]}]

\* The spatial extent of the points along each direction (self._limits).
Limits == [x |-> <<0, 20>>, y |-> <<0, 20>>]

\* The slider values a user can drag to.
SliderValues == {<<9, 11>>, <<15, 17>>, <<17, 19>>}

NoTimer == [due |-> -1, args |-> <<>>]

\* Timer.__init__ + Timer.start: a task that sleeps `timeout` and then calls
\* the callback; the callback closes over the arguments of this call.
Timer(timeout, args) == [due |-> now + timeout, args |-> args]

\* A cancel that leaves the task in the loop.
BadCancel(ts, tm) == ts

\* Timer.cancel: the task is taken from the loop; cancelling a task that has
\* run already changes nothing.
Cancel(ts, tm) == ts \ {tm}

\* The body of `debounced`: cancel the pending timer, start a new one.
Debounced(wait, args) ==
    LET kept == IF timer # NoTimer THEN Cancel(tasks, timer) ELSE tasks
        new  == Timer(wait, args)
    IN  /\ timer' = new
        /\ tasks' = kept \cup {new}

\* The tasks whose sleep is over. The loop runs such a task when it gets to it:
\* the clock may move on and other handlers may run while the task waits.
Due == {tk \in tasks : tk.due <= now}

\* Cut3dTool.__init__: the slider starts at center -/+ 0.05 * (max - min), the
\* two outlines at the slider's ends; nothing is selected and no observer has
\* run yet.
InitialValue(t) ==
    LET lo     == Limits[t][1]
        hi     == Limits[t][2]
        center == (lo + hi) \div 2
        delta  == (5 * (hi - lo)) \div 100
    IN  <<center - delta, center + delta>>

\* The ids of the nodes the view shows; a new node gets an id none of them has.
UsedIds(vw) == {c.id : c \in vw}
FreshId(vw) ==
    CHOOSE i \in 1..(Cardinality(UsedIds(vw)) + 1) :
        /\ i \notin UsedIds(vw)
        /\ \A j \in 1..(i - 1) : j \in UsedIds(vw)

\* The selection of _add_cut: the points strictly inside the slider's range.
Selection(t, n, value) ==
    {p \in Points[n] : p[t] > value[1] /\ p[t] < value[2]}

\* Cut3dTool._add_cut, the loop over self._nodes from index i on; st is the
\* pair [sel |-> select_nodes of the tool, vw |-> children of the view]. A
\* node with an empty selection gets no point cloud; a node that has one
\* already gets a second one, and select_nodes keeps the id of the new one.
RECURSIVE AddCutFrom(_, _, _, _)
AddCutFrom(t, value, i, st) ==
    IF i > Len(NodeSeq) THEN st
    ELSE LET n  == NodeSeq[i]
             s  == Selection(t, n, value)
             id == FreshId(st.vw)
         IN  IF s # {}
             THEN AddCutFrom(t, value, i + 1,
                    [sel |-> [k \in DOMAIN st.sel \cup {n} |->
                                 IF k = n THEN id ELSE st.sel[k]],
                     vw  |-> st.vw \cup {[id |-> id, cut |-> t, node |-> n,
                                          points |-> s]}])
             ELSE AddCutFrom(t, value, i + 1, st)

\* _add_cut reads the slider's value at the time it runs.
AddCut(t, sel, vw) ==
    AddCutFrom(t, slider[t].value, 1, [sel |-> sel, vw |-> vw])

\* Cut3dTool._remove_cut: every node of select_nodes leaves the view, and
\* select_nodes is cleared.
RemoveCut(t, sel, vw) ==
    [sel |-> <<>>,
     vw  |-> {c \in vw : c.id \notin {sel[k] : k \in DOMAIN sel}}]

\* Cut3dTool.move, the outlines: each one goes to its end of the new range.
MovedTo(t, value) == <<value[1], value[2]>>

InitCut ==
    /\ now = 0
    /\ tasks = {}
    /\ timer = NoTimer
    /\ slider = [t \in Tools |-> [value |-> InitialValue(t), disabled |-> FALSE]]
    /\ outlines = [t \in Tools |-> [position |-> InitialValue(t), visible |-> TRUE]]
    /\ select_nodes = [t \in Tools |-> <<>>]
    /\ children = {}
    /\ hist = [called |-> FALSE, callAt |-> 0, callArgs |-> <<>>,
               burst |-> 0, runs |-> 0, runAt |-> 0, runArgs |-> <<>>,
               op |-> "init", tool |-> "x"]

\* The user drags the slider of tool t to `value`: the two observers of the
\* slider run in the order they were registered, move and then the debounced
\* update_cut. A timer whose sleep is over but whose task the loop has not run
\* yet is cancelled like any other.
SliderChange(t, value) ==
    /\ ~slider[t].disabled
    /\ value # slider[t].value
    /\ slider' = [slider EXCEPT ![t].value = value]
    /\ outlines' = [outlines EXCEPT ![t].position = MovedTo(t, value)]
    /\ LET st == RemoveCut(t, select_nodes[t], children)
       IN  /\ select_nodes' = [select_nodes EXCEPT ![t] = st.sel]
           /\ children' = st.vw
    /\ Debounced(Wait, [self |-> t, new |-> value])
    /\ hist' = [hist EXCEPT !.called = TRUE, !.callAt = now,
                            !.callArgs = [self |-> t, new |-> value],
                            !.burst = IF hist.called /\ now < hist.callAt + Wait
                                      THEN 2 ELSE 1,
                            !.runs = 0, !.op = "move", !.tool = t]
    /\ UNCHANGED now
    /\ UNCHANGED otherThanCut

\* Timer._job after its sleep: call_it runs update_cut with the arguments the
\* timer was made with, which adds the cut of that tool.
TimerJob ==
    \E tk \in Due :
        LET t  == tk.args.self
            st == AddCut(t, select_nodes[t], children)
        IN  /\ tasks' = tasks \ {tk}
            /\ select_nodes' = [select_nodes EXCEPT ![t] = st.sel]
            /\ children' = st.vw
            /\ hist' = [hist EXCEPT !.runs = @ + 1, !.runAt = now,
                                    !.runArgs = tk.args,
                                    !.op = "update_cut", !.tool = t]
            /\ UNCHANGED <<now, timer, slider, outlines>>
            /\ UNCHANGED otherThanCut

\* A tenth of a second passes, whether or not a task is due.
Tick ==
    /\ now < MaxTime
    /\ now' = now + 1
    /\ UNCHANGED <<tasks, timer, slider, outlines, select_nodes, children, hist>>
    /\ UNCHANGED otherThanCut

\* Cut3dTool.toggle, the click on the eye button of tool t.
Toggle(t) ==
    LET value == select_nodes[t] # <<>>
    IN  /\ outlines' = [outlines EXCEPT ![t].visible = ~value]
        /\ slider' = [slider EXCEPT ![t].disabled = value]
        /\ LET st == IF ~value
                     THEN AddCut(t, select_nodes[t], children)
                     ELSE RemoveCut(t, select_nodes[t], children)
           IN  /\ select_nodes' = [select_nodes EXCEPT ![t] = st.sel]
               /\ children' = st.vw
        /\ hist' = [hist EXCEPT !.op = "toggle", !.tool = t]
        /\ UNCHANGED <<now, tasks, timer>>
        /\ UNCHANGED otherThanCut

\* Cut3dTool.toggle_border, the click on the border button of tool t.
ToggleBorder(t) ==
    /\ outlines' = [outlines EXCEPT ![t].visible = ~outlines[t].visible]
    /\ hist' = [hist EXCEPT !.op = "toggle_border", !.tool = t]
    /\ UNCHANGED <<now, tasks, timer, slider, select_nodes, children>>
    /\ UNCHANGED otherThanCut

NextCut ==
    \/ \E t \in Tools, value \in SliderValues : SliderChange(t, value)
    \/ TimerJob
    \/ Tick
    \/ \E t \in Tools : Toggle(t)
    \/ \E t \in Tools : ToggleBorder(t)

(***************************************************************************)
(*                              Canvas                                     *)
(***************************************************************************)

\* The unit of the vertical axis (self.units['y'], set by set_axes).
YUnit == "m"

\* What a user may pass as <<vmin, vmax>>: nothing, a plain number, or a
\* scalar Variable in the axis unit or in another unit of the same dimension.
UserBounds ==
    {<<None, None>>,
     <<[kind |-> "number", value |-> -20],
       [kind |-> "Variable", value |-> 40, unit |-> "m"]>>,
     <<[kind |-> "Variable", value |-> 3000, unit |-> "cm"], None>>}

\* ax.lines: either no line, or the limits that ax.relim(); ax.autoscale()
\* give the axes for the lines now on them, on the axes' current scales.
NoLines == [kind |-> "None"]
LineXLims == {<<0, 40>>, <<10, 20>>}
LineYLims == {<<-40, 80>>, <<20, 40>>}
LineLims == {[kind |-> "lines", x |-> <<0, 40>>, y |-> <<-40, 80>>],
             [kind |-> "lines", x |-> <<10, 20>>, y |-> <<20, 40>>]}

\* The QuadMesh collections that can be on the axes, by their coordinates.
Meshes == {[xs |-> {-20, 0, 20}, ys |-> {-60, 0}]}

\* Canvas.autoscale, lines 145-173: the limits of the lines and the meshes on
\* the axes, <<xmin, xmax, ymin, ymax>>.
DataLimits(a) ==
    LET lined == a.lines # NoLines
        x0 == IF lined THEN a.lines.x[1] ELSE Inf
        x1 == IF lined THEN a.lines.x[2] ELSE -Inf
        y0 == IF lined THEN a.lines.y[1] ELSE Inf
        y1 == IF lined THEN a.lines.y[2] ELSE -Inf
        xl(c) == fix_empty_range(find_limits(c.xs, a.xscale))
        yl(c) == fix_empty_range(find_limits(c.ys, a.yscale))
    IN  <<SetMin({x0} \cup {xl(c)[1] : c \in a.collections}),
          SetMax({x1} \cup {xl(c)[2] : c \in a.collections}),
          SetMin({y0} \cup {yl(c)[1] : c \in a.collections}),
          SetMax({y1} \cup {yl(c)[2] : c \in a.collections})>>

\* Limits that take the new value whatever was stored, and limits that forget
\* nothing: the two ways to get lines 174-183 wrong.
AlwaysNew(mode, stored, new) == new
AlwaysGrowHigh(mode, stored, new) == Max2(stored, new)

\* Canvas.autoscale, lines 174-183: the stored lower and upper limit.
StoredLow(mode, stored, new) ==
    IF mode = "grow" THEN Min2(stored, new) ELSE new
StoredHigh(mode, stored, new) ==
    IF mode = "grow" THEN Max2(stored, new) ELSE new

\* A user bound that is ignored.
NoUserLimit(user, stored) == stored

\* Canvas.autoscale, lines 184-191: a user vmin or vmax replaces the limit.
UserLimit(user, stored) ==
    IF user # None THEN maybe_variable_to_number(user, YUnit) ELSE stored

\* _none_if_not_finite and ax.set_xlim / ax.set_ylim: a limit given as None
\* leaves that end of the view where it was.
SetLim(view, lo, hi) ==
    <<IF lo = Inf \/ lo = -Inf THEN view[1] ELSE lo,
      IF hi = Inf \/ hi = -Inf THEN view[2] ELSE hi>>

\* Canvas.autoscale on canvas c with axes a: the new canvas and axes.
AutoscaleOf(c, a) ==
    LET d    == DataLimits(a)
        xmin == StoredLow(c._autoscale, c._xmin, d[1])
        xmax == StoredHigh(c._autoscale, c._xmax, d[2])
        ymin == UserLimit(c._user_vmin, StoredLow(c._autoscale, c._ymin, d[3]))
        ymax == UserLimit(c._user_vmax, StoredHigh(c._autoscale, c._ymax, d[4]))
        \* ax.autoscale() moved the view to the lines' limits before set_xlim
        vx   == IF a.lines # NoLines THEN a.lines.x ELSE a.xlim
        vy   == IF a.lines # NoLines THEN a.lines.y ELSE a.ylim
    IN  [canvas |-> [c EXCEPT !._xmin = xmin, !._xmax = xmax,
                              !._ymin = ymin, !._ymax = ymax],
         ax     |-> [a EXCEPT !.xlim = SetLim(vx, xmin, xmax),
                              !.ylim = SetLim(vy, ymin, ymax)]]

\* Canvas.__init__ with the given autoscale mode and user bounds, on new axes.
NewCanvas(mode, vmin, vmax) ==
    [_autoscale |-> mode, _user_vmin |-> vmin, _user_vmax |-> vmax,
     _xmin |-> Inf, _xmax |-> -Inf, _ymin |-> Inf, _ymax |-> -Inf]

NewAxes ==
    [lines |-> NoLines, collections |-> {}, xscale |-> "linear",
     yscale |-> "linear", xlim |-> <<0, 10>>, ylim |-> <<0, 10>>]

Stored(c) == <<c._xmin, c._xmax, c._ymin, c._ymax>>

\* The stored limits of canvas c2 lie strictly inside those of canvas c, on
\* both axes.
Narrowed(c, c2) ==
    /\ c._xmin < c2._xmin /\ c2._xmax < c._xmax
    /\ c._ymin < c2._ymin /\ c2._ymax < c._ymax

\* What the last Canvas call showed: whether it ran autoscale(), and whether
\* that autoscale narrowed the stored limits from those of c to those of c2.
Called(autoscaled, c, c2) ==
    [autoscaled |-> autoscaled, narrowed |-> autoscaled /\ Narrowed(c, c2)]

InitCanvasWith(mode, vmin, vmax) ==
    /\ canvas = NewCanvas(mode, vmin, vmax)
    /\ ax = NewAxes
    /\ chist = [autoscaled |-> FALSE, narrowed |-> FALSE]

InitCanvas ==
    \E mode \in {"auto", "grow"}, user \in UserBounds :
        InitCanvasWith(mode, user[1], user[2])

\* The plotted data changes: the artists on the axes are given new data, are
\* added or are removed.
DataChange(lines, meshes) ==
    /\ <<lines, meshes>> # <<ax.lines, ax.collections>>
    /\ ax' = [ax EXCEPT !.lines = lines, !.collections = meshes]
    /\ chist' = Called(FALSE, canvas, canvas)
    /\ UNCHANGED canvas
    /\ UNCHANGED otherThanCanvas

\* Canvas.autoscale().
Autoscale ==
    LET r == AutoscaleOf(canvas, ax)
    IN  /\ canvas' = r.canvas
        /\ ax' = r.ax
        /\ chist' = Called(TRUE, canvas, r.canvas)
        /\ UNCHANGED otherThanCanvas

Flip(scale) == IF scale = "linear" THEN "log" ELSE "linear"

\* Canvas.logx(): the scale of the x axis flips, the stored x limits are
\* forgotten, and the canvas autoscales; lx are the limits matplotlib gives the
\* lines on the new scale.
LogX(lx) ==
    LET a == [ax EXCEPT !.xscale = Flip(ax.xscale),
                        !.lines = IF ax.lines = NoLines THEN NoLines
                                  ELSE [ax.lines EXCEPT !.x = lx]]
        r == AutoscaleOf([canvas EXCEPT !._xmin = Inf, !._xmax = -Inf], a)
    IN  /\ canvas' = r.canvas
        /\ ax' = r.ax
        /\ chist' = Called(TRUE, canvas, r.canvas)
        /\ UNCHANGED otherThanCanvas

\* Canvas.logy(), the same on the y axis.
LogY(ly) ==
    LET a == [ax EXCEPT !.yscale = Flip(ax.yscale),
                        !.lines = IF ax.lines = NoLines THEN NoLines
                                  ELSE [ax.lines EXCEPT !.y = ly]]
        r == AutoscaleOf([canvas EXCEPT !._ymin = Inf, !._ymax = -Inf], a)
    IN  /\ canvas' = r.canvas
        /\ ax' = r.ax
        /\ chist' = Called(TRUE, canvas, r.canvas)
        /\ UNCHANGED otherThanCanvas

\* The scales an axis can be given.
Scales == {"linear", "log"}

\* The setter of Canvas.xscale: ax.set_xscale(scale) and nothing else; the
\* stored limits and the view stay, and no autoscale follows. lx are the
\* limits the lines have on that scale.
SetXScale(scale, lx) ==
    /\ ax' = [ax EXCEPT !.xscale = scale,
                        !.lines = IF ax.lines = NoLines \/ scale = ax.xscale
                                  THEN @ ELSE [@ EXCEPT !.x = lx]]
    /\ chist' = Called(FALSE, canvas, canvas)
    /\ UNCHANGED canvas
    /\ UNCHANGED otherThanCanvas

\* The setter of Canvas.yscale, the same on the y axis.
SetYScale(scale, ly) ==
    /\ ax' = [ax EXCEPT !.yscale = scale,
                        !.lines = IF ax.lines = NoLines \/ scale = ax.yscale
                                  THEN @ ELSE [@ EXCEPT !.y = ly]]
    /\ chist' = Called(FALSE, canvas, canvas)
    /\ UNCHANGED canvas
    /\ UNCHANGED otherThanCanvas

\* The ranges the view setters are given; the setter of a lower or upper
\* end is given that end of one.
ViewRanges == {<<5, 30>>}

\* The setters of Canvas.xmin, xmax and xrange: ax.set_xlim(value, self.xmax),
\* ax.set_xlim(self.xmin, value) and ax.set_xlim(value).
SetXMin(value) ==
    /\ ax' = [ax EXCEPT !.xlim = <<value, ax.xlim[2]>>]
    /\ chist' = Called(FALSE, canvas, canvas)
    /\ UNCHANGED canvas
    /\ UNCHANGED otherThanCanvas

SetXMax(value) ==
    /\ ax' = [ax EXCEPT !.xlim = <<ax.xlim[1], value>>]
    /\ chist' = Called(FALSE, canvas, canvas)
    /\ UNCHANGED canvas
    /\ UNCHANGED otherThanCanvas

SetXRange(value) ==
    /\ ax' = [ax EXCEPT !.xlim = <<value[1], value[2]>>]
    /\ chist' = Called(FALSE, canvas, canvas)
    /\ UNCHANGED canvas
    /\ UNCHANGED otherThanCanvas

\* The setters of Canvas.ymin, ymax and yrange.
SetYMin(value) ==
    /\ ax' = [ax EXCEPT !.ylim = <<value, ax.ylim[2]>>]
    /\ chist' = Called(FALSE, canvas, canvas)
    /\ UNCHANGED canvas
    /\ UNCHANGED otherThanCanvas

SetYMax(value) ==
    /\ ax' = [ax EXCEPT !.ylim = <<ax.ylim[1], value>>]
    /\ chist' = Called(FALSE, canvas, canvas)
    /\ UNCHANGED canvas
    /\ UNCHANGED otherThanCanvas

SetYRange(value) ==
    /\ ax' = [ax EXCEPT !.ylim = <<value[1], value[2]>>]
    /\ chist' = Called(FALSE, canvas, canvas)
    /\ UNCHANGED canvas
    /\ UNCHANGED otherThanCanvas

\* The units of the two axes (self.units, set by set_axes).
Units == [x |-> "m", y |-> YUnit]

\* What a crop entry may hold: 'min' alone, 'max' alone, or both; a scalar
\* in another unit of the axis' dimension, or a plain number.
CropLimits ==
    {[min |-> [kind |-> "Variable", value |-> 500, unit |-> "cm"]],
     [max |-> [kind |-> "number", value |-> 30]],
     [min |-> [kind |-> "Variable", value |-> 500, unit |-> "cm"],
      max |-> [kind |-> "number", value |-> 30]]}

\* The keyword arguments of a crop call: an entry for x, for y or for both.
CropArgs ==
    [{"x"} -> CropLimits] \cup [{"y"} -> CropLimits]
    \cup {[xy \in {"x", "y"} |-> limits] : limits \in CropLimits}

\* Canvas.crop, lines 237-241: the positional arguments of set_xlim or
\* set_ylim, the numbers of 'min' and of 'max' for those that are given, in
\* this order.
CropNumbers(lims, unit) ==
    (IF "min" \in DOMAIN lims
     THEN <<maybe_variable_to_number(lims.min, unit)>> ELSE <<>>)
    \o (IF "max" \in DOMAIN lims
        THEN <<maybe_variable_to_number(lims.max, unit)>> ELSE <<>>)

\* ax.set_xlim(*args) and ax.set_ylim(*args) of matplotlib: the first
\* positional argument is the lower end of the view, the second the upper
\* end, and an end that is not given stays.
set_lim(view, args) ==
    <<IF Len(args) >= 1 THEN args[1] ELSE view[1],
      IF Len(args) >= 2 THEN args[2] ELSE view[2]>>

\* Canvas.crop(**limits) on axes a.
CropOf(a, limits) ==
    [a EXCEPT
       !.xlim = IF "x" \in DOMAIN limits
                THEN set_lim(@, CropNumbers(limits.x, Units.x)) ELSE @,
       !.ylim = IF "y" \in DOMAIN limits
                THEN set_lim(@, CropNumbers(limits.y, Units.y)) ELSE @]

\* Canvas.crop(**limits).
Crop(limits) ==
    /\ ax' = CropOf(ax, limits)
    /\ chist' = Called(FALSE, canvas, canvas)
    /\ UNCHANGED canvas
    /\ UNCHANGED otherThanCanvas

NextCanvas ==
    \/ \E lines \in {NoLines} \cup LineLims, meshes \in SUBSET Meshes :
          DataChange(lines, meshes)
    \/ Autoscale
    \/ \E lx \in LineXLims : LogX(lx)
    \/ \E ly \in LineYLims : LogY(ly)
    \/ \E scale \in Scales, lx \in LineXLims : SetXScale(scale, lx)
    \/ \E scale \in Scales, ly \in LineYLims : SetYScale(scale, ly)
    \/ \E value \in ViewRanges : SetXMin(value[1])
    \/ \E value \in ViewRanges : SetXMax(value[2])
    \/ \E value \in ViewRanges : SetXRange(value)
    \/ \E value \in ViewRanges : SetYMin(value[1])
    \/ \E value \in ViewRanges : SetYMax(value[2])
    \/ \E value \in ViewRanges : SetYRange(value)
    \/ \E limits \in CropArgs : Crop(limits)

(***************************************************************************)
(*                            ColorMapper                                  *)
(*                                                                         *)
(* An optional number (None or a float) is a set with no or one element.   *)
(***************************************************************************)

\* The unit of every data array given to the mapper.
DataUnit == "K"

\* The values of the data arrays the mapper is given.
DataSets == {{10, 40}, {20, 30}, {-20, 60}, {-40, -20}, {60, 80}, {20}}

\* What a user may pass as vmin or vmax: nothing, a plain number, a scalar
\* Variable with the unit of the data or with another unit.
MapperVmins == {None, [kind |-> "number", value |-> 20],
                [kind |-> "Variable", value |-> 20, unit |-> "K"],
                [kind |-> "Variable", value |-> 2000, unit |-> "cK"]}
MapperVmaxs == {None, [kind |-> "number", value |-> 30],
                [kind |-> "Variable", value |-> 30, unit |-> "K"]}

\* The values of the data arrays rgba is called with on its own.
RgbaData == {{20, 30}, {-40, -20}}

\* The data the artists registered with the mapper hold.
ArtistData == {{10, 40}, {-20, 60}, {-40, -20}}

\* The keys under which artists register with the mapper.
Keys == {"child1", "child2"}

\* matplotlib.colors.Normalize() and LogNorm(): a normalizer with the limits
\* it was made with.
Normalize == [kind |-> "Normalize", vmin |-> {}, vmax |-> {}]
LogNorm(vmin, vmax) == [kind |-> "LogNorm", vmin |-> vmin, vmax |-> vmax]

\* The `cax` and `figsize` arguments of ColorMapper.__init__: left at None,
\* or the axes for the colorbar and the size of the figure.
Caxes == {None, [kind |-> "Axes"]}
Figsizes == {None, [kind |-> "tuple", value |-> <<600, 400>>]}

\* What is left of a construction that raised: no mapper.
NoMapper == [kind |-> "TypeError"]

\* ColorMapper.__init__. Without `cax` the colorbar gets axes of its own,
\* whose height is read from figsize[1] (lines 75-79): with figsize None as
\* well that raises TypeError and no mapper is made.
NewMapper(cax, figsize, norm, vmin, vmax) ==
    IF cax = None /\ figsize = None THEN NoMapper
    ELSE [user_vmin |-> vmin, user_vmax |-> vmax, vmin |-> Inf, vmax |-> -Inf,
          norm |-> norm,
          normalizer |-> IF norm = "linear" THEN Normalize
                         ELSE LogNorm({10}, {20}),
          unit |-> {}, colorbar_norm |-> "normalizer"]

\* What reading user.unit and comparing it with data.unit ends in (lines
\* 139 and 144): a plain number has no unit, another unit fails the assert.
UserUnitCheck(user) ==
    IF user.kind = "number" THEN "AttributeError"
    ELSE IF user.unit # DataUnit THEN "AssertionError"
    ELSE "ok"

\* ColorMapper.autoscale, lines 141-142 and 146-147: without a user bound the
\* limit moves only outwards.
LowerLimit(stored, found) == IF found < stored THEN found ELSE stored
UpperLimit(stored, found) == IF found > stored THEN found ELSE stored

\* ColorMapper.autoscale(data) on mapper m: the mapper after it and how the
\* call ended; an exception leaves what was assigned before it.
AutoscaleLimits(m, values) ==
    LET lims == fix_empty_range(find_limits(values, m.norm))
        e1   == IF m.user_vmin # None THEN UserUnitCheck(m.user_vmin) ELSE "ok"
        m1   == IF m.user_vmin # None
                THEN IF e1 = "ok" THEN [m EXCEPT !.vmin = m.user_vmin.value] ELSE m
                ELSE [m EXCEPT !.vmin = LowerLimit(m.vmin, lims[1])]
        e2   == IF e1 = "ok" /\ m.user_vmax # None
                THEN UserUnitCheck(m.user_vmax) ELSE e1
        m2   == IF e1 # "ok" THEN m1
                ELSE IF m.user_vmax # None
                THEN IF e2 = "ok" THEN [m1 EXCEPT !.vmax = m.user_vmax.value] ELSE m1
                ELSE [m1 EXCEPT !.vmax = UpperLimit(m.vmax, lims[2])]
    IN  [m |-> m2, err |-> e2]

\* matplotlib's Normalize.autoscale_None, which a normalizer runs when it is
\* called with a limit unset: the limit is taken from the values it is called
\* with, a LogNorm looking at the positive ones only.
autoscale_None(nz, values) ==
    LET valid == IF nz.kind = "LogNorm" THEN {v \in values : v > 0} ELSE values
    IN  [nz EXCEPT
           !.vmin = IF nz.vmin = {} /\ valid # {} THEN {SetMin(valid)} ELSE nz.vmin,
           !.vmax = IF nz.vmax = {} /\ valid # {} THEN {SetMax(valid)} ELSE nz.vmax]

\* The limits with which matplotlib refuses to normalize: one missing, the
\* lower above the upper, or a LogNorm limit that has no logarithm.
NormFails(nz) ==
    \/ nz.vmin = {} \/ nz.vmax = {}
    \/ \E lo \in nz.vmin, hi \in nz.vmax :
          \/ lo > hi
          \/ nz.kind = "LogNorm" /\ (lo <= 0 \/ hi <= 0)

\* ColorMapper.rgba(data) with normalizer nz: the normalizer is called with
\* the values, which sets the limits it lacks and fails on limits it cannot
\* use; the colours it gives are modelled by the normalizer's kind.
rgba(nz, values) ==
    LET n == autoscale_None(nz, values)
    IN  [nz |-> n, colors |-> {n.kind},
         err |-> IF NormFails(n) THEN "ValueError" ELSE "ok"]

\* ColorMapper._set_children_colors from child i on: each child is given the
\* colours of its data. st = [nz, ch, err].
RECURSIVE SetColorsFrom(_, _)
SetColorsFrom(i, st) ==
    IF i > Len(st.ch) \/ st.err # "ok" THEN st
    ELSE LET c == rgba(st.nz, st.ch[i].data)
         IN  IF c.err # "ok"
             THEN [st EXCEPT !.nz = c.nz, !.err = c.err]
             ELSE SetColorsFrom(i + 1,
                    [st EXCEPT !.nz = c.nz,
                               !.ch = [st.ch EXCEPT ![i].colors = c.colors]])

set_children_colors(m, ch) ==
    LET r == SetColorsFrom(1, [nz |-> m.normalizer, ch |-> ch, err |-> "ok"])
    IN  [m |-> [m EXCEPT !.normalizer = r.nz], ch |-> r.ch, err |-> r.err]

\* np.allclose on two pairs of limits: on the grid of the model two numbers
\* are close only when they are equal.
allclose(a, b) == a = b

Bounds(m) == <<m.vmin, m.vmax>>

\* ColorMapper.update(data) on mapper m with children ch.
UpdateOf(m, ch, values) ==
    LET old_bounds == Bounds(m)
        a  == AutoscaleLimits(m, values)
        m1 == [a.m EXCEPT !.normalizer.vmin = {a.m.vmin},
                          !.normalizer.vmax = {a.m.vmax},
                          !.unit = IF a.m.unit = {} THEN {DataUnit} ELSE a.m.unit]
    IN  IF a.err # "ok"
        THEN [m |-> a.m, ch |-> ch, err |-> a.err, refreshed |-> FALSE]
        ELSE IF ~allclose(old_bounds, Bounds(m1))
        THEN LET c == set_children_colors(m1, ch)
             IN  [m |-> c.m, ch |-> c.ch, err |-> c.err, refreshed |-> TRUE]
        ELSE [m |-> m1, ch |-> ch, err |-> "ok", refreshed |-> FALSE]

\* Limits that survive a toggle of the norm.
KeepLimits(m) == m

\* ColorMapper.toggle_norm, lines 201-202: the limits are forgotten.
ResetLimits(m) == [m EXCEPT !.vmin = Inf, !.vmax = -Inf]

\* ColorMapper.toggle_norm, lines 205-206: autoscale on the data of each child
\* in turn, from child i on. st = [m, err].
RECURSIVE AutoscaleChildrenFrom(_, _, _)
AutoscaleChildrenFrom(i, ch, st) ==
    IF i > Len(ch) \/ st.err # "ok" THEN st
    ELSE AutoscaleChildrenFrom(i + 1, ch, AutoscaleLimits(st.m, ch[i].data))

\* ColorMapper.toggle_norm() on mapper m with children ch.
ToggleNormOf(m, ch) ==
    LET norm == IF m.norm = "linear" THEN "log" ELSE "linear"
        m1 == ResetLimits(
                [m EXCEPT !.norm = norm,
                          !.normalizer = IF norm = "linear" THEN Normalize
                                         ELSE LogNorm({}, {}),
                          !.colorbar_norm = "replaced"])
        a  == AutoscaleChildrenFrom(1, ch, [m |-> m1, err |-> "ok"])
        c  == set_children_colors(a.m, ch)
    IN  IF a.err # "ok"
        THEN [m |-> a.m, ch |-> ch, err |-> a.err, refreshed |-> FALSE]
        ELSE IF c.err # "ok"
        THEN [m |-> c.m, ch |-> c.ch, err |-> c.err, refreshed |-> TRUE]
        ELSE [m |-> [c.m EXCEPT !.colorbar_norm = "normalizer"], ch |-> c.ch,
              err |-> "ok", refreshed |-> TRUE]

\* What a call showed: how it ended, whether the children were given new
\* colours, and, for an update, the values of the data it was given.
Observed(op, r) ==
    [op |-> op, err |-> r.err, refreshed |-> r.refreshed, data |-> {}]

InitMapperWith(cax, figsize, norm, vmin, vmax) ==
    /\ mapper = NewMapper(cax, figsize, norm, vmin, vmax)
    /\ artists = <<>>
    /\ mhist = [op |-> "init",
                err |-> IF NewMapper(cax, figsize, norm, vmin, vmax) = NoMapper
                        THEN "TypeError" ELSE "ok",
                refreshed |-> FALSE, data |-> {}]

InitMapper ==
    \E cax \in Caxes, figsize \in Figsizes, norm \in {"linear", "log"},
       vmin \in MapperVmins, vmax \in MapperVmaxs :
        InitMapperWith(cax, figsize, norm, vmin, vmax)

Index(ch, key) == {i \in 1..Len(ch) : ch[i].key = key}

\* ColorMapper.__setitem__: mapper[key] = an artist holding `values`, which
\* has no colours yet.
SetItem(key, values) ==
    LET new == [key |-> key, data |-> values, colors |-> {}]
    IN  /\ mapper # NoMapper
        /\ artists' = IF Index(artists, key) = {} THEN Append(artists, new)
                      ELSE [i \in 1..Len(artists) |->
                              IF artists[i].key = key THEN new ELSE artists[i]]
        /\ artists' # artists
        /\ mhist' = [op |-> "setitem", err |-> "ok", refreshed |-> FALSE,
                     data |-> {}]
        /\ UNCHANGED mapper
        /\ UNCHANGED otherThanMapper

\* ColorMapper.update(data=values).
Update(values) ==
    LET r == UpdateOf(mapper, artists, values)
    IN  /\ mapper # NoMapper
        /\ mapper' = r.m
        /\ artists' = r.ch
        /\ mhist' = [Observed("update", r) EXCEPT !.data = values]
        /\ UNCHANGED otherThanMapper

\* ColorMapper.autoscale(data=values), called on its own.
AutoscaleData(values) ==
    LET a == AutoscaleLimits(mapper, values)
    IN  /\ mapper # NoMapper
        /\ mapper' = a.m
        /\ mhist' = Observed("autoscale", [err |-> a.err, refreshed |-> FALSE])
        /\ UNCHANGED artists
        /\ UNCHANGED otherThanMapper

\* ColorMapper.toggle_norm().
ToggleNorm ==
    LET r == ToggleNormOf(mapper, artists)
    IN  /\ mapper # NoMapper
        /\ mapper' = r.m
        /\ artists' = r.ch
        /\ mhist' = Observed("toggle_norm", r)
        /\ UNCHANGED otherThanMapper

\* ColorMapper.rgba(data) called on its own, with data holding `values`.
Rgba(values) ==
    LET c == rgba(mapper.normalizer, values)
    IN  /\ mapper # NoMapper
        /\ mapper' = [mapper EXCEPT !.normalizer = c.nz]
        /\ mhist' = Observed("rgba", [err |-> c.err, refreshed |-> FALSE])
        /\ UNCHANGED artists
        /\ UNCHANGED otherThanMapper

NextMapper ==
    \/ \E key \in Keys, values \in ArtistData : SetItem(key, values)
    \/ \E values \in DataSets : Update(values)
    \/ \E values \in DataSets : AutoscaleData(values)
    \/ ToggleNorm
    \/ \E values \in RgbaData : Rgba(values)

(***************************************************************************)
(*                    ClippingPlanes and Clip3dTool                        *)
(*                                                                         *)
(* Opacities are counted in hundredths. A selection (a boolean mask over   *)
(* the points of a node) is the set of the points it marks.                *)
(***************************************************************************)

\* The most cuts the model adds.
MaxCuts == 2

\* The value of the opacity field (0.03) and the opacity of an original
\* cloud when no cut is visible (1.0).
LowOpacity == 3
FullOpacity == 100

\* The directions of the add-cut buttons the model clicks.
Directions == {"x", "y"}

\* OPERATIONS: the names of the binary operations.
OPERATIONS == {"or", "and", "xor"}

\* The values a user types into the opacity field (0.03 and 0.2).
Opacities == {LowOpacity, 20}

\* The slider values a user can drag a cut to.
ClipRanges == {<<9, 11>>, <<11, 17>>}

\* Clip3dTool.__init__: a visible cut whose slider and outlines sit at the
\* centre of the limits, 0.05 of their extent to each side.
Clip3dTool(direction) ==
    LET center == (Limits[direction][1] + Limits[direction][2]) \div 2
        delta  == (Limits[direction][2] - Limits[direction][1]) \div 20
    IN  [direction |-> direction, visible |-> TRUE,
         slider |-> [value |-> <<center - delta, center + delta>>,
                     disabled |-> FALSE],
         outlines |-> [position |-> <<center - delta, center + delta>>,
                       visible |-> TRUE]]

\* ClippingPlanes.__init__: no cuts, the controls disabled.
NewPlanes ==
    [cuts |-> <<>>, _operation |-> "or", _nodes |-> {},
     opacity |-> [value |-> LowOpacity, disabled |-> TRUE],
     delete_cut |-> [disabled |-> TRUE],
     cut_borders_visibility |-> [value |-> TRUE, disabled |-> TRUE],
     cut_operation |-> [disabled |-> TRUE],
     pending |-> FALSE]

NewPlanesView == [clouds |-> {}, opacity |-> FullOpacity]

\* Every cut, visible or hidden.
AllCuts(cuts) == cuts

\* update_state, line 351: the cuts that are visible, in their order.
VisibleCuts(cuts) == SelectSeq(cuts, LAMBDA cut : cut.visible)

\* update_state, lines 359-362: the points of `da` strictly inside the range
\* of the cut along the cut's dimension.
InRange(da, cut) ==
    {pt \in da : /\ pt[cut.direction] > cut.slider.value[1]
                 /\ pt[cut.direction] < cut.slider.value[2]}

\* OPERATIONS[operation](x, y) on two selections.
Operate(operation, x, y) ==
    CASE operation = "or"  -> x \cup y
      [] operation = "and" -> x \cap y
      [] operation = "xor" -> (x \ y) \cup (y \ x)

\* functools.reduce over the selections from the i-th on, `acc` being the
\* result so far.
RECURSIVE Reduce(_, _, _, _)
Reduce(operation, selections, i, acc) ==
    IF i > Len(selections) THEN acc
    ELSE Reduce(operation, selections, i + 1,
                Operate(operation, acc, selections[i]))

\* update_state, lines 357-365: the combined selection of node n.
CombinedSelection(operation, visible_cuts, n) ==
    LET selections == [i \in 1..Len(visible_cuts) |->
                          InRange(Points[n], visible_cuts[i])]
    IN  Reduce(operation, selections, 2, selections[1])

\* The id of a new node: the smallest one no cloud of the view has.
NewId(clouds) ==
    CHOOSE i \in 1..(Cardinality(clouds) + 1) :
        /\ \A c \in clouds : c.id # i
        /\ \A j \in 1..(i - 1) : \E c \in clouds : c.id = j

\* The view's remove(id), once for each id: the clouds drawn for these nodes
\* leave the view.
ViewRemove(clouds, ids) == {c \in clouds : c.id \notin ids}

\* The view is notified by slice node `id`, for which it has no cloud yet:
\* it draws the data the node gives, the selected points of node n.
ViewUpdate(clouds, id, n, selection) ==
    clouds \cup {[id |-> id, node |-> n, points |-> selection]}

\* update_state, lines 355-377, from the i-th original node on: a node with
\* a non-empty selection gets a select node and a slice node, and the view
\* draws the slice. st = [nodes, clouds].
RECURSIVE SliceFrom(_, _, _, _)
SliceFrom(operation, visible_cuts, i, st) ==
    IF i > Len(NodeSeq) THEN st
    ELSE LET n == NodeSeq[i]
             selection == CombinedSelection(operation, visible_cuts, n)
             id == NewId(st.clouds)
         IN  IF selection # {}
             THEN SliceFrom(operation, visible_cuts, i + 1,
                    [nodes  |-> st.nodes \cup {[n |-> n, slice |-> id]},
                     clouds |-> ViewUpdate(st.clouds, id, n, selection)])
             ELSE SliceFrom(operation, visible_cuts, i + 1, st)

\* ClippingPlanes.update_state on planes p and view v.
update_state(p, v) ==
    LET kept == ViewRemove(v.clouds, {nd.slice : nd \in p._nodes})
        visible_cuts == VisibleCuts(p.cuts)
        st == IF Len(visible_cuts) = 0 THEN [nodes |-> {}, clouds |-> kept]
              ELSE SliceFrom(p._operation, visible_cuts, 1,
                             [nodes |-> {}, clouds |-> kept])
    IN  [p |-> [p EXCEPT !._nodes = st.nodes],
         v |-> [v EXCEPT !.clouds = st.clouds]]

\* ClippingPlanes.update_controls on planes p and view v.
update_controls(p, v) ==
    LET at_least_one_cut == \E i \in 1..Len(p.cuts) : p.cuts[i].visible
        opacity == IF at_least_one_cut THEN p.opacity.value ELSE FullOpacity
    IN  [p |-> [p EXCEPT !.delete_cut.disabled = ~at_least_one_cut,
                         !.cut_borders_visibility.disabled = ~at_least_one_cut,
                         !.cut_operation.disabled = ~at_least_one_cut,
                         !.opacity.disabled = ~at_least_one_cut],
         v |-> [v EXCEPT !.opacity = opacity]]

\* list.pop(index).
Pop(seq, index) ==
    [i \in 1..(Len(seq) - 1) |-> IF i < index THEN seq[i] ELSE seq[i + 1]]

InitPlanes ==
    /\ planes = NewPlanes
    /\ planes_view = NewPlanesView
    /\ phist = [clicks |-> TRUE, updated |-> FALSE]

\* A click on an add-cut button: ClippingPlanes._add_cut(direction).
AddCutClick(direction) ==
    /\ Len(planes.cuts) < MaxCuts
    /\ LET p1 == [planes EXCEPT !.cuts = Append(@, Clip3dTool(direction))]
           c  == update_controls(p1, planes_view)
           u  == update_state(c.p, c.v)
       IN  /\ planes' = u.p
           /\ planes_view' = u.v
    /\ phist' = [clicks |-> phist.clicks, updated |-> TRUE]
    /\ UNCHANGED otherThanPlanes

\* A click on the delete button, which is enabled, with tab `index`
\* selected: ClippingPlanes._remove_cut.
RemoveCutClick(index) ==
    /\ ~planes.delete_cut.disabled
    /\ index \in 1..Len(planes.cuts)
    /\ LET p1 == [planes EXCEPT !.cuts = Pop(@, index)]
           u  == update_state(p1, planes_view)
           c  == update_controls(u.p, u.v)
       IN  /\ planes' = c.p
           /\ planes_view' = c.v
    /\ phist' = [clicks |-> phist.clicks, updated |-> TRUE]
    /\ UNCHANGED otherThanPlanes

\* A click on the eye button of cut `index`: Clip3dTool.toggle.
ToggleCut(index) ==
    /\ index \in 1..Len(planes.cuts)
    /\ LET visible == ~planes.cuts[index].visible
           p1 == [planes EXCEPT !.cuts[index].visible = visible,
                                !.cuts[index].outlines.visible = visible,
                                !.cuts[index].slider.disabled = ~visible]
           u  == update_state(p1, planes_view)
       IN  /\ planes' = u.p
           /\ planes_view' = u.v
    /\ phist' = [clicks |-> phist.clicks, updated |-> TRUE]
    /\ UNCHANGED otherThanPlanes

\* The slider of cut `index` is dragged to `value`: Clip3dTool.move, which
\* moves the outlines and asks for a debounced update.
MoveCut(index, value) ==
    /\ index \in 1..Len(planes.cuts)
    /\ ~planes.cuts[index].slider.disabled
    /\ value # planes.cuts[index].slider.value
    /\ planes' = [planes EXCEPT !.cuts[index].slider.value = value,
                                !.cuts[index].outlines.position = value,
                                !.pending = TRUE]
    /\ phist' = [clicks |-> FALSE, updated |-> FALSE]
    /\ UNCHANGED planes_view
    /\ UNCHANGED otherThanPlanes

\* The debounced ClippingPlanes.throttled_update runs.
ThrottledUpdate ==
    /\ planes.pending
    /\ LET u == update_state([planes EXCEPT !.pending = FALSE], planes_view)
       IN  /\ planes' = u.p
           /\ planes_view' = u.v
    /\ phist' = [clicks |-> FALSE, updated |-> TRUE]
    /\ UNCHANGED otherThanPlanes

\* Another operation is picked in the dropdown, which is enabled:
\* ClippingPlanes.change_operation.
ChangeOperation(operation) ==
    /\ ~planes.cut_operation.disabled
    /\ operation # planes._operation
    /\ LET u == update_state([planes EXCEPT !._operation = operation],
                             planes_view)
       IN  /\ planes' = u.p
           /\ planes_view' = u.v
    /\ phist' = [clicks |-> FALSE, updated |-> TRUE]
    /\ UNCHANGED otherThanPlanes

\* The opacity field, which is enabled, is given another value: its observer
\* ClippingPlanes._set_opacity hands the value to the view.
SetOpacity(value) ==
    /\ ~planes.opacity.disabled
    /\ value # planes.opacity.value
    /\ planes' = [planes EXCEPT !.opacity.value = value]
    /\ planes_view' = [planes_view EXCEPT !.opacity = value]
    /\ phist' = [clicks |-> FALSE, updated |-> FALSE]
    /\ UNCHANGED otherThanPlanes

\* Clip3dTool.toggle_border(value) on every cut of the sequence.
toggle_border(cuts, value) ==
    [i \in 1..Len(cuts) |-> [cuts[i] EXCEPT !.outlines.visible = value]]

\* A click on the border button, which is enabled: its value flips and its
\* observer ClippingPlanes.toggle_border_visibility shows or hides the
\* outlines of every cut.
ToggleBorderVisibility ==
    LET value == ~planes.cut_borders_visibility.value
    IN  /\ ~planes.cut_borders_visibility.disabled
        /\ planes' = [planes EXCEPT !.cut_borders_visibility.value = value,
                                    !.cuts = toggle_border(@, value)]
        /\ phist' = [clicks |-> FALSE, updated |-> FALSE]
        /\ UNCHANGED planes_view
        /\ UNCHANGED otherThanPlanes

NextPlanes ==
    \/ \E direction \in Directions : AddCutClick(direction)
    \/ \E index \in 1..MaxCuts : RemoveCutClick(index)
    \/ \E index \in 1..MaxCuts : ToggleCut(index)
    \/ \E index \in 1..MaxCuts, value \in ClipRanges : MoveCut(index, value)
    \/ ThrottledUpdate
    \/ \E operation \in OPERATIONS : ChangeOperation(operation)
    \/ \E value \in Opacities : SetOpacity(value)
    \/ ToggleBorderVisibility

(***************************************************************************)
(*                             TriCutTool                                  *)
(*                                                                         *)
(* The tabs of a TriCutTool are Cut3dTool objects made and deleted as the  *)
(* user clicks.  Dragging the slider of a tab removes its clouds at once   *)
(* and leaves a debounced update_cut pending; the timer of the debounce    *)
(* decorator is one closure variable for every tab, so a later drag on any *)
(* tab cancels it.  The pending call holds its cut object, and runs also   *)
(* after the tab was deleted.  Time is not counted here (the timing of the *)
(* debounce is the subject of SpecCut): a pending call runs at any later   *)
(* step.                                                                   *)
(***************************************************************************)

\* The most tabs the model holds.
MaxTabs == 2

\* The most point clouds the figure holds when a slider is dragged: the
\* clouds a pending update_cut draws for a deleted or redrawn cut are never
\* removed, so their number grows without bound.
MaxClouds == 2

\* The ranges a tab's slider is dragged to.
TabRanges == {<<9, 11>>, <<11, 17>>}

\* The pending call of the debounced update_cut: on the cut object of tab
\* `index`, or on a cut object that was deleted from the tabs.
Pending(index) == [kind |-> "tab", index |-> index]

Deleted(cut) ==
    [kind |-> "deleted", direction |-> cut.direction, value |-> cut.slider.value]

\* The pending call after TriCutTool._remove_cut popped the cut of tab
\* `index`: it keeps its cut object, whose tab index may have changed.
TimerAfterPop(pending, cut, index) ==
    IF pending.kind # "tab" THEN pending
    ELSE IF pending.index = index THEN Deleted(cut)
    ELSE IF pending.index > index THEN [pending EXCEPT !.index = @ - 1]
    ELSE pending

\* Cut3dTool.__init__ with the `disabled` argument: the buttons and the
\* slider are disabled and the outlines hidden when it is set.
NewCut3dTool(direction, disabled) ==
    [direction |-> direction, disabled |-> disabled,
     slider |-> [value |-> InitialValue(direction), disabled |-> disabled],
     outlines |-> [visible |-> ~disabled],
     select_nodes |-> <<>>]

\* Cut3dTool.toggle on cut object `cut` drawing on the clouds `clouds`.
Cut3dTool_toggle(cut, clouds) ==
    LET value == cut.select_nodes # <<>>
        st == IF ~value
              THEN AddCutFrom(cut.direction, cut.slider.value, 1,
                              [sel |-> cut.select_nodes, vw |-> clouds])
              ELSE RemoveCut(cut.direction, cut.select_nodes, clouds)
    IN  [cut |-> [cut EXCEPT !.outlines.visible = ~value,
                             !.slider.disabled = value,
                             !.select_nodes = st.sel],
         clouds |-> st.vw]

\* Cut3dTool.toggle_border: the outlines are shown when hidden and hidden
\* when shown.
Cut3dTool_toggle_border(cut) == [cut EXCEPT !.outlines.visible = ~@]

\* Cut3dTool.move, the observer of the slider: the outlines follow (their
\* position is the slider's) and the clouds of the cut are removed.
Cut3dTool_move(cut, clouds, value) ==
    LET st == RemoveCut(cut.direction, cut.select_nodes, clouds)
    IN  [cut |-> [cut EXCEPT !.slider.value = value, !.select_nodes = st.sel],
         clouds |-> st.vw]

\* TriCutTool._toggle_opacity on tool t and figure f.
TriCutTool_toggle_opacity(t, f) ==
    LET active_cut == \E i \in 1..Len(t.cuts) : ~t.cuts[i].disabled
        opacity == IF active_cut THEN t.opacity.value ELSE FullOpacity
    IN  [t |-> [t EXCEPT !.opacity.disabled = ~active_cut],
         f |-> [f EXCEPT !.opacity = opacity]]

\* TriCutTool._add_cut(direction) and TriCutTool._remove_cut with tab
\* `index` selected, which call each other: adding to a lone disabled
\* placeholder removes the placeholder (the selected and only tab before the
\* addition), and removing the last cut adds a placeholder.
RECURSIVE TriCutTool_add_cut(_, _, _)
RECURSIVE TriCutTool_remove_cut(_, _, _)
TriCutTool_add_cut(t, f, direction) ==
    LET disabled == Len(t.cuts) = 0
        t1 == [t EXCEPT !.cuts = Append(@, NewCut3dTool(direction, disabled))]
        r  == IF ~disabled /\ t1.cuts[1].disabled
              THEN TriCutTool_remove_cut(t1, f, 1)
              ELSE [t |-> t1, f |-> f]
    IN  TriCutTool_toggle_opacity(r.t, r.f)

TriCutTool_remove_cut(t, f, index) ==
    LET cut == t.cuts[index]
        st  == RemoveCut(cut.direction, cut.select_nodes, f.clouds)
        t1  == [t EXCEPT !.cuts = Pop(@, index),
                         !.timer = TimerAfterPop(@, cut, index)]
        f1  == [f EXCEPT !.clouds = st.vw]
    IN  IF Len(t1.cuts) = 0 THEN TriCutTool_add_cut(t1, f1, "x")
        ELSE [t |-> t1, f |-> f1]

\* TriCutTool.__init__: the opacity field is disabled, and _add_cut('x')
\* makes the placeholder.
NewTriCutTool ==
    TriCutTool_add_cut(
        [cuts |-> <<>>, opacity |-> [value |-> LowOpacity, disabled |-> TRUE],
         timer |-> None],
        [clouds |-> {}, opacity |-> FullOpacity], "x")

InitTriCut ==
    /\ tricut = NewTriCutTool.t
    /\ fig = NewTriCutTool.f
    /\ thist = [clicks |-> TRUE]

\* A click on an add-cut button of the TriCutTool.
AddTabClick(direction) ==
    /\ Len(tricut.cuts) < MaxTabs
    /\ LET r == TriCutTool_add_cut(tricut, fig, direction)
       IN  /\ tricut' = r.t
           /\ fig' = r.f
    /\ UNCHANGED thist
    /\ UNCHANGED otherThanTriCut

\* A click on 'Delete cut' with tab `index` selected.
DeleteTabClick(index) ==
    /\ index \in 1..Len(tricut.cuts)
    /\ LET r == TriCutTool_remove_cut(tricut, fig, index)
       IN  /\ tricut' = r.t
           /\ fig' = r.f
    /\ UNCHANGED thist
    /\ UNCHANGED otherThanTriCut

\* A click on the eye button of tab `index`, which is not the disabled
\* placeholder.
EyeClick(index) ==
    /\ index \in 1..Len(tricut.cuts)
    /\ ~tricut.cuts[index].disabled
    /\ LET r == Cut3dTool_toggle(tricut.cuts[index], fig.clouds)
       IN  /\ tricut' = [tricut EXCEPT !.cuts[index] = r.cut]
           /\ fig' = [fig EXCEPT !.clouds = r.clouds]
    /\ UNCHANGED thist
    /\ UNCHANGED otherThanTriCut

\* A click on the border button of tab `index`, which is not the disabled
\* placeholder.
BorderClick(index) ==
    /\ index \in 1..Len(tricut.cuts)
    /\ ~tricut.cuts[index].disabled
    /\ tricut' = [tricut EXCEPT !.cuts[index] = Cut3dTool_toggle_border(@)]
    /\ thist' = [clicks |-> FALSE]
    /\ UNCHANGED fig
    /\ UNCHANGED otherThanTriCut

\* The slider of tab `index`, which is enabled, is dragged to `value`: move
\* runs, and the debounced update_cut cancels the pending call and leaves
\* one for this cut.
TabSliderChange(index, value) ==
    /\ index \in 1..Len(tricut.cuts)
    /\ ~tricut.cuts[index].slider.disabled
    /\ value # tricut.cuts[index].slider.value
    /\ Cardinality(fig.clouds) < MaxClouds
    /\ LET r == Cut3dTool_move(tricut.cuts[index], fig.clouds, value)
       IN  /\ tricut' = [tricut EXCEPT !.cuts[index] = r.cut,
                                       !.timer = Pending(index)]
           /\ fig' = [fig EXCEPT !.clouds = r.clouds]
    /\ thist' = [clicks |-> FALSE]
    /\ UNCHANGED otherThanTriCut

\* The pending update_cut runs: Cut3dTool._add_cut of its cut object draws
\* the clouds at the slider's range, on a cut that is a tab or on one that
\* was deleted.
TabUpdateCut ==
    /\ tricut.timer # None
    /\ IF tricut.timer.kind = "tab"
       THEN LET index == tricut.timer.index
                cut == tricut.cuts[index]
                st == AddCutFrom(cut.direction, cut.slider.value, 1,
                                 [sel |-> cut.select_nodes, vw |-> fig.clouds])
            IN  /\ tricut' = [tricut EXCEPT !.cuts[index].select_nodes = st.sel,
                                            !.timer = None]
                /\ fig' = [fig EXCEPT !.clouds = st.vw]
       ELSE LET st == AddCutFrom(tricut.timer.direction, tricut.timer.value, 1,
                                 [sel |-> <<>>, vw |-> fig.clouds])
            IN  /\ tricut' = [tricut EXCEPT !.timer = None]
                /\ fig' = [fig EXCEPT !.clouds = st.vw]
    /\ thist' = [clicks |-> FALSE]
    /\ UNCHANGED otherThanTriCut

\* The opacity field, which is enabled, is set to another value: its
\* observer TriCutTool._set_opacity sets the opacity of the figure.
TriSetOpacity(value) ==
    /\ ~tricut.opacity.disabled
    /\ value # tricut.opacity.value
    /\ tricut' = [tricut EXCEPT !.opacity.value = value]
    /\ fig' = [fig EXCEPT !.opacity = value]
    /\ thist' = [clicks |-> FALSE]
    /\ UNCHANGED otherThanTriCut

NextTriCut ==
    \/ \E direction \in Directions : AddTabClick(direction)
    \/ \E index \in 1..MaxTabs : DeleteTabClick(index)
    \/ \E index \in 1..MaxTabs : EyeClick(index)
    \/ \E index \in 1..MaxTabs : BorderClick(index)
    \/ \E index \in 1..MaxTabs, value \in TabRanges : TabSliderChange(index, value)
    \/ TabUpdateCut
    \/ \E value \in Opacities : TriSetOpacity(value)

(***************************************************************************)
(*                    scatter() and the Scatter artist                     *)
(*                                                                         *)
(* A data array holds two points: coords x, y and s are sequences over the *)
(* points, masks is the set of its boolean mask arrays; an array without   *)
(* the coordinate s is a record without the field s. An entry of a         *)
(* collection's offsets is a set: {<<x, y>>} for a point, {} for NaN.      *)
(***************************************************************************)

\* The area matplotlib gives a marker when no size is passed
\* (rcParams['lines.markersize'] ** 2).
DefaultSize == 36

PointIndex == {1, 2}

\* The data arrays given to scatter().
ScatterData ==
    {[x |-> xs, y |-> <<5, 7>>, s |-> ss, masks |-> ms] :
        xs \in {<<1, 2>>, <<3, 4>>},
        ss \in {<<10, 20>>, <<30, 30>>},
        ms \in {{}, {<<TRUE, FALSE>>}, {<<TRUE, FALSE>>, <<FALSE, TRUE>>},
                {<<FALSE, FALSE>>}}}

\* The size arguments scatter() is called with: none, a coordinate name, a
\* float.
SizeArgs == {None, [kind |-> "str", value |-> "s"],
             [kind |-> "float", value |-> 25]}

\* core.utils.merge_masks: a point is masked when one of the masks marks it.
merge_masks(masks) == [i \in PointIndex |-> \E m \in masks : m[i]]

\* The data arrays given to Scatter.update: with and without the
\* coordinate s.
UpdateData ==
    ScatterData \cup {[x |-> d.x, y |-> d.y, masks |-> d.masks] : d \in ScatterData}

\* da.coords[name]: a coordinate is found under its name, a str; any other
\* key raises.
HasCoord(da, size) == size.kind = "str" /\ size.value \in DOMAIN da

\* _preprocess_scatter: a new data array with the data and the masks of the
\* input and, of its coords, x, y and `size` (when it is not None) only; a
\* size that is no coordinate name raises.
preprocess_scatter(obj, size) ==
    IF size = None
    THEN [err |-> "ok", out |-> [x |-> obj.x, y |-> obj.y, masks |-> obj.masks]]
    ELSE IF ~HasCoord(obj, size)
    THEN [err |-> "raises", out |-> None]
    ELSE [err |-> "ok",
          out |-> [x |-> obj.x, y |-> obj.y, s |-> obj[size.value],
                   masks |-> obj.masks]]

\* The x and y positions of the points of a data array.
Offsets(data) == [i \in PointIndex |-> {<<data.x[i], data.y[i]>>}]

\* Scatter.__init__, lines 106-114: the positions of the masked points, NaN
\* for the others.
MaskOffsets(data) ==
    [i \in PointIndex |->
        IF data.masks # {} /\ ~merge_masks(data.masks)[i] THEN {}
        ELSE {<<data.x[i], data.y[i]>>}]

\* Scatter.__init__ on preprocessed data, with a size that is None or a
\* coordinate name.
NewScatter(data, size) ==
    LET sizes == IF size = None THEN <<DefaultSize>> ELSE data[size.value]
    IN  [_data |-> data, _size |-> size,
         _scatter |-> [offsets |-> Offsets(data), sizes |-> sizes],
         _mask |-> [offsets |-> MaskOffsets(data), sizes |-> sizes,
                    visible |-> data.masks # {}]]

\* scatter(obj, size=size): the nodes preprocess the input and the figure
\* makes one Scatter artist from the result.
ScatterCall(obj, size) ==
    LET pre == preprocess_scatter(obj, size)
    IN  IF pre.err # "ok" THEN [err |-> pre.err, artist |-> None]
        ELSE [err |-> "ok", artist |-> NewScatter(pre.out, size)]

\* Scatter.update(new_values) on artist a: the data and the offsets are set
\* first, then the sizes from the size coordinate, whose lookup raises when
\* the new data have no such coordinate.
ScatterUpdateOf(a, new_values) ==
    LET moved == [a EXCEPT !._data = new_values,
                           !._scatter.offsets = Offsets(new_values)]
    IN  IF a._size = None THEN [err |-> "ok", artist |-> moved]
        ELSE IF ~HasCoord(new_values, a._size)
        THEN [err |-> "raises", artist |-> moved]
        ELSE [err |-> "ok",
              artist |-> [moved EXCEPT
                            !._scatter.sizes = new_values[a._size.value]]]

InitScatter ==
    \E obj \in ScatterData, size \in SizeArgs :
        LET r == ScatterCall(obj, size)
        IN  /\ scatter_artist = r.artist
            /\ shist = [op |-> "scatter", size |-> size, err |-> r.err]

\* Scatter.update(new_values): the node of the figure sends new data to the
\* artist, or the method is called with a data array.
ScatterUpdate(new_values) ==
    /\ scatter_artist # None
    /\ new_values # scatter_artist._data
    /\ LET r == ScatterUpdateOf(scatter_artist, new_values)
       IN  /\ scatter_artist' = r.artist
           /\ shist' = [shist EXCEPT !.op = "update", !.err = r.err]
    /\ UNCHANGED otherThanScatter

NextScatter == \E new_values \in UpdateData : ScatterUpdate(new_values)

(***************************************************************************)
(*                            the inspector                                *)
(*                                                                         *)
(* The data array has 2 x 2 pixels along x and y, with bin edges 0, 2, 4;  *)
(* the spectrum of a pixel (what is left of it along the third dimension)  *)
(* is modelled by a number that names it. The func of an event node is     *)
(* modelled by the position it returns.                                    *)
(***************************************************************************)

\* The most points the user makes on the 2d figure.
MaxPoints == 3

\* The positions (event.xdata, event.ydata) of the clicks and drags.
Positions == {<<1, 1>>, <<1, 3>>, <<3, 3>>}

\* The three-dimensional data: the spectrum of each pixel.
DataArray3d == [i \in {1, 2} |-> [j \in {1, 2} |-> 10 * i + j]]

\* Label-based indexing along a dimension with bin edges 0, 2, 4: the bin
\* the value lies in.
BinOf(value) == IF value < 2 THEN 1 ELSE 2

\* slice_dims(data_array, slices): the data sliced at the position along x
\* and then along y.
slice_dims(data_array, slices) == data_array[BinOf(slices[1])][BinOf(slices[2])]

\* An event node that keeps the func it was made with.
KeepFunc(n, pos) == n

\* update_node, lines 52-57: the func of the event node is replaced by one
\* that returns the position of this event.
SetFunc(n, pos) == [n EXCEPT !.func = pos]

\* The id of a new node.
NewNodeId(h) ==
    Cardinality(DOMAIN h._event_nodes) + Cardinality(DOMAIN h.slice_nodes) + 1

\* f with key k set to value v, whether f has the key or not.
Put(f, k, v) == [x \in DOMAIN f \cup {k} |-> IF x = k THEN v ELSE f[x]]

\* Node.request_data of slice node `id`: slice_dims on the data of the root
\* node and on what the func of its event node returns.
request_data(h, id) ==
    slice_dims(DataArray3d, h._event_nodes[h.slice_nodes[id].parent].func)

\* The 1d figure's update(new_values, key): a new artist, or new values for
\* the artist it has.
Fig1dUpdate(f, new_values, key) ==
    IF key \in DOMAIN f.artists
    THEN [f EXCEPT !.artists[key].data = new_values]
    ELSE [f EXCEPT !.artists = Put(@, key, [data |-> new_values,
                                            removed |-> FALSE])]

\* Node.notify_children of event node `id`, from its i-th child on: each
\* child notifies its views, and a view asks the child for its data and
\* updates itself under the child's id. st = [f, received].
RECURSIVE NotifyFrom(_, _, _, _)
NotifyFrom(h, id, i, st) ==
    LET ch == h._event_nodes[id].children
    IN  IF i > Len(ch) THEN st
        ELSE IF h.slice_nodes[ch[i]].views = {} THEN NotifyFrom(h, id, i + 1, st)
        ELSE NotifyFrom(h, id, i + 1,
               [f |-> Fig1dUpdate(st.f, request_data(h, ch[i]), ch[i]),
                received |-> st.received \cup {ch[i]}])

notify_children(h, f, id) == NotifyFrom(h, id, 1, [f |-> f, received |-> {}])

InitInspector ==
    /\ handler = [_event_nodes |-> <<>>, slice_nodes |-> <<>>, points |-> {}]
    /\ fig1d = [artists |-> <<>>]
    /\ ihist = [op |-> "init", nodeid |-> 0, received |-> {}]

\* A click makes a point at pos: InspectorEventHandler.make_node.
MakeNode(pos) ==
    /\ Cardinality(DOMAIN handler._event_nodes) < MaxPoints
    /\ LET id == NewNodeId(handler)
           inspect == id + 1
           h == [handler EXCEPT
                   !._event_nodes = Put(@, id, [func |-> pos,
                                                children |-> <<inspect>>]),
                   !.slice_nodes = Put(@, inspect, [parent |-> id,
                                                    views |-> {"fig1d"}]),
                   !.points = @ \cup {id}]
       IN  /\ handler' = h
           /\ fig1d' = Fig1dUpdate(fig1d, request_data(h, inspect), inspect)
           /\ ihist' = [op |-> "make_node", nodeid |-> id, received |-> {inspect}]
    /\ UNCHANGED otherThanInspector

\* The point whose artist carries `nodeid` is dragged to pos:
\* InspectorEventHandler.update_node.
UpdateNode(nodeid, pos) ==
    /\ nodeid \in handler.points
    /\ pos # handler._event_nodes[nodeid].func
    /\ LET h == [handler EXCEPT
                   !._event_nodes[nodeid] = SetFunc(@, pos)]
           r == notify_children(h, fig1d, nodeid)
       IN  /\ handler' = h
           /\ fig1d' = r.f
           /\ ihist' = [op |-> "update_node", nodeid |-> nodeid,
                        received |-> r.received]
    /\ UNCHANGED otherThanInspector

\* A middle click removes the point whose artist carries `nodeid`:
\* InspectorEventHandler.remove_node. The artist of its slice leaves the
\* canvas, and the two nodes leave the graph.
RemoveNode(nodeid) ==
    /\ nodeid \in handler.points
    /\ LET pnode == handler._event_nodes[nodeid].children[1]
       IN  /\ fig1d' = [fig1d EXCEPT !.artists[pnode].removed = TRUE]
           /\ handler' = [handler EXCEPT
                            !.slice_nodes[pnode].views = {},
                            !._event_nodes[nodeid].children = <<>>,
                            !.points = @ \ {nodeid}]
    /\ ihist' = [op |-> "remove_node", nodeid |-> nodeid, received |-> {}]
    /\ UNCHANGED otherThanInspector

NextInspector ==
    \/ \E pos \in Positions : MakeNode(pos)
    \/ \E nodeid \in 1..(2 * MaxPoints), pos \in Positions :
          UpdateNode(nodeid, pos)
    \/ \E nodeid \in 1..(2 * MaxPoints) : RemoveNode(nodeid)

(***************************************************************************)
(*                          specifications                                 *)
(***************************************************************************)

IdleCut == InitCut
IdleCanvas == InitCanvasWith("auto", None, None)
IdleMapper == InitMapperWith([kind |-> "Axes"], None, "linear", None, None)

IdlePlanes == InitPlanes
IdleTriCut == InitTriCut
IdleInspector == InitInspector
IdleScatter ==
    /\ scatter_artist = None
    /\ shist = [op |-> "init", size |-> None, err |-> "ok"]

InitSpecCut ==
    InitCut /\ IdleCanvas /\ IdleMapper /\ IdlePlanes /\ IdleTriCut /\ IdleScatter
    /\ IdleInspector
SpecCut == InitSpecCut /\ [][NextCut]_vars

InitSpecCanvas ==
    InitCanvas /\ IdleCut /\ IdleMapper /\ IdlePlanes /\ IdleTriCut /\ IdleScatter
    /\ IdleInspector
SpecCanvas == InitSpecCanvas /\ [][NextCanvas]_vars

InitSpecMapper ==
    InitMapper /\ IdleCut /\ IdleCanvas /\ IdlePlanes /\ IdleTriCut /\ IdleScatter
    /\ IdleInspector
SpecMapper == InitSpecMapper /\ [][NextMapper]_vars

InitSpecPlanes ==
    InitPlanes /\ IdleCut /\ IdleCanvas /\ IdleMapper /\ IdleTriCut /\ IdleScatter
    /\ IdleInspector
SpecPlanes == InitSpecPlanes /\ [][NextPlanes]_vars

InitSpecTriCut ==
    InitTriCut /\ IdleCut /\ IdleCanvas /\ IdleMapper /\ IdlePlanes /\ IdleScatter
    /\ IdleInspector
SpecTriCut == InitSpecTriCut /\ [][NextTriCut]_vars

InitSpecScatter ==
    InitScatter /\ IdleCut /\ IdleCanvas /\ IdleMapper /\ IdlePlanes /\ IdleTriCut
    /\ IdleInspector
SpecScatter == InitSpecScatter /\ [][NextScatter]_vars

InitSpecInspector ==
    InitInspector /\ IdleCut /\ IdleCanvas /\ IdleMapper /\ IdlePlanes /\ IdleTriCut
    /\ IdleScatter
SpecInspector == InitSpecInspector /\ [][NextInspector]_vars

(***************************************************************************)
(*                               claims                                    *)
(***************************************************************************)

\* The cut point clouds of tool t that the view shows.
CloudsOf(t) == {c \in children : c.cut = t}

\* A call arrives more than `wait` after the call before it: the burst of the
\* earlier calls is over and this call starts a new one.
NewBurst ==
    /\ hist.called
    /\ now > hist.callAt + Wait
    /\ \E t \in Tools, value \in SliderValues : SliderChange(t, value)

\* C1: a debounced function runs exactly once per burst of calls that follow
\* each other by less than `wait`: never before `wait` has passed since the
\* last call of the burst, with the arguments of that call, and by the time
\* the next burst starts the function has run once for the burst before it.
C1_DebounceRunsOnceAfterBurst ==
    [][/\ hist'.runs <= 1
       /\ hist'.runs = 1 =>
             /\ hist'.runAt >= hist'.callAt + Wait
             /\ hist'.runArgs = hist'.callArgs
       /\ NewBurst => hist.runs = 1]_vars

\* C1, as the code has it: since the last call the debounced function has run
\* at most once, never before `wait` has passed since that call and with the
\* arguments of that call; it has run exactly when the timer of that call is
\* no longer pending, so a burst goes without its run only when the next call
\* cancels the timer before the loop has run its task.
C1_DebounceRunsOnceUnlessCancelled ==
    /\ hist.runs <= 1
    /\ hist.runs = 1 =>
          /\ hist.runAt >= hist.callAt + Wait
          /\ hist.runArgs = hist.callArgs
    /\ hist.called => (hist.runs = 0 <=> timer \in tasks)

\* A burst of several calls has ended and the wrapped function has run.
C1_Witness ==
    /\ hist.burst = 2
    /\ hist.runs = 1
    /\ hist.op = "update_cut"

\* C2: on every slider change the two outlines take the new slider positions
\* and the view holds no cut cloud of the tool any more; the debounced
\* update adds a cloud only once 0.3 s have passed without a slider change.
C2_SliderMovesOutlineAndRemovesCloud ==
    /\ hist.op = "move" =>
          /\ outlines[hist.tool].position = slider[hist.tool].value
          /\ CloudsOf(hist.tool) = {}
    /\ hist.op = "update_cut" => now >= hist.callAt + Wait

\* C3: with autoscale='grow' the stored limits only widen: on every step that
\* leaves the scale of an axis as it is, the stored lower limit of that axis
\* does not increase and the stored upper limit does not decrease (on the y
\* axis, when no user vmin/vmax is set).
C3_GrowLimitsNeverShrink ==
    [][canvas._autoscale = "grow" =>
         /\ ax'.xscale = ax.xscale =>
               /\ canvas'._xmin <= canvas._xmin
               /\ canvas'._xmax >= canvas._xmax
         /\ (/\ ax'.yscale = ax.yscale
             /\ canvas._user_vmin = None
             /\ canvas._user_vmax = None) =>
               /\ canvas'._ymin <= canvas._ymin
               /\ canvas'._ymax >= canvas._ymax]_vars

\* In grow mode an autoscale has kept limits wider than the data now on the
\* axes, on both axes.
C3_Witness ==
    /\ canvas._autoscale = "grow"
    /\ chist.autoscaled
    /\ canvas._user_vmin = None /\ canvas._user_vmax = None
    /\ canvas._xmin < DataLimits(ax)[1] /\ canvas._xmax > DataLimits(ax)[2]
    /\ canvas._ymin < DataLimits(ax)[3] /\ canvas._ymax > DataLimits(ax)[4]

\* A Canvas call that ends in an autoscale has just run.
Autoscaled == chist.autoscaled

\* C4 as claimed: with autoscale='auto', after each autoscale the four stored
\* limits equal the limits of the lines and meshes now on the axes.
C4_AutoLimitsEqualDataLimits ==
    (Autoscaled /\ canvas._autoscale = "auto") => Stored(canvas) = DataLimits(ax)

\* C4 as amended: with autoscale='auto', after each autoscale the stored x
\* limits equal the limits of the lines and meshes now on the axes, and so
\* does each stored y limit for which the user set no bound.
C4_AutoLimitsEqualDataLimitsUnlessUser ==
    (Autoscaled /\ canvas._autoscale = "auto") =>
        /\ canvas._xmin = DataLimits(ax)[1]
        /\ canvas._xmax = DataLimits(ax)[2]
        /\ canvas._user_vmin = None => canvas._ymin = DataLimits(ax)[3]
        /\ canvas._user_vmax = None => canvas._ymax = DataLimits(ax)[4]

\* In auto mode an autoscale has narrowed finite limits on both axes.
C4_Witness ==
    /\ canvas._autoscale = "auto"
    /\ chist.autoscaled
    /\ canvas._user_vmin = None /\ canvas._user_vmax = None
    /\ chist.narrowed

\* The user bounds in the unit of the y axis: -20 is -2.0, 3000 (tenths of a
\* cm) is 30 (tenths of a m), 40 m is 40.
UserNumber(user) ==
    IF user.kind = "Variable" /\ user.unit = "cm" THEN user.value \div 100
    ELSE user.value

\* A step that is a Canvas call ending in an autoscale (autoscale(), logx()
\* or logy()), and one that is a logx() call: of the calls that autoscale,
\* logx() alone changes the scale of the x axis.
AutoscaleStep == chist'.autoscaled
LogXStep == chist'.autoscaled /\ ax'.xscale # ax.xscale

\* C5: after every autoscale, in both modes, _ymin is the user vmin and _ymax
\* the user vmax when they were given, and the x limits are what they are
\* without user bounds: the data limits in auto mode (and after logx, which
\* forgets the stored x limits), the data limits joined with the limits
\* stored before in grow mode.
C5_UserBoundsFixYLimits ==
    [][AutoscaleStep =>
         /\ canvas._user_vmin # None =>
               canvas'._ymin = UserNumber(canvas._user_vmin)
         /\ canvas._user_vmax # None =>
               canvas'._ymax = UserNumber(canvas._user_vmax)
         /\ (canvas._autoscale = "auto" \/ LogXStep) =>
               /\ canvas'._xmin = DataLimits(ax')[1]
               /\ canvas'._xmax = DataLimits(ax')[2]
         /\ (canvas._autoscale = "grow" /\ ~LogXStep) =>
               /\ canvas'._xmin = Min2(canvas._xmin, DataLimits(ax')[1])
               /\ canvas'._xmax = Max2(canvas._xmax, DataLimits(ax')[2])]_vars

\* An autoscale has run with both user bounds set and data reaching beyond
\* both of them.
C5_Witness ==
    /\ chist.autoscaled
    /\ canvas._user_vmin # None /\ canvas._user_vmax # None
    /\ DataLimits(ax)[3] < canvas._ymin
    /\ DataLimits(ax)[4] > canvas._ymax
    /\ canvas._xmin < canvas._xmax

\* The limits the mapper finds in `values` under norm `norm`: their minimum
\* and maximum (of the positive values on a log norm), a single value widened.
LimitsOf(values, norm) == fix_empty_range(find_limits(values, norm))

NoUserBounds == mapper.user_vmin = None /\ mapper.user_vmax = None

\* A user bound given as a plain number or as a scalar with the data's unit.
InDataUnit(user) ==
    \/ user.kind = "number"
    \/ user.kind = "Variable" /\ user.unit = DataUnit

\* C6: once the limits have been set, update(data) leaves vmin and vmax as
\* they were, whether the range of the data is larger or smaller.
C6_UpdateKeepsLimits ==
    [][\A values \in DataSets :
         (/\ Update(values)
          /\ mapper.vmin # Inf
          /\ mapper.vmax # -Inf) =>
            /\ mapper'.vmin = mapper.vmin
            /\ mapper'.vmax = mapper.vmax]_vars

\* C7: with no user vmin/vmax, after an update or an autoscale with new data
\* vmin and vmax are the limits of that data, whether its range is larger or
\* smaller than the range before.
C7_LimitsFollowData ==
    [][\A values \in DataSets :
         (/\ Update(values) \/ AutoscaleData(values)
          /\ NoUserBounds) =>
            /\ mapper'.vmin = LimitsOf(values, mapper.norm)[1]
            /\ mapper'.vmax = LimitsOf(values, mapper.norm)[2]]_vars

\* C8: with a user vmin and a user vmax, given as scalars with the data's unit
\* or as plain numbers, vmin and vmax are the user's after every update and
\* autoscale.
C8_UserLimitsKept ==
    [][\A values \in DataSets :
         (/\ Update(values) \/ AutoscaleData(values)
          /\ mapper.user_vmin # None /\ InDataUnit(mapper.user_vmin)
          /\ mapper.user_vmax # None /\ InDataUnit(mapper.user_vmax)) =>
            /\ mapper'.vmin = mapper.user_vmin.value
            /\ mapper'.vmax = mapper.user_vmax.value]_vars

\* C9: with one bound set by the user (here as a scalar with the data's unit)
\* and the other left to the data, after every update and autoscale
\* vmin < vmax and the user's bound has its value.
C9_OneUserBoundKeepsOrder ==
    [][\A values \in DataSets :
         (Update(values) \/ AutoscaleData(values)) =>
            /\ (/\ mapper.user_vmin # None
                /\ mapper.user_vmin.kind = "Variable"
                /\ mapper.user_vmin.unit = DataUnit
                /\ mapper.user_vmax = None) =>
                  /\ mapper'.vmin = mapper.user_vmin.value
                  /\ mapper'.vmin < mapper'.vmax
            /\ (/\ mapper.user_vmax # None
                /\ mapper.user_vmax.kind = "Variable"
                /\ mapper.user_vmax.unit = DataUnit
                /\ mapper.user_vmin = None) =>
                  /\ mapper'.vmax = mapper.user_vmax.value
                  /\ mapper'.vmin < mapper'.vmax]_vars

\* The limits of the data of all children under norm `norm`, found afresh.
ChildrenLimits(ch, norm) ==
    <<SetMin({Inf} \cup {LimitsOf(ch[i].data, norm)[1] : i \in 1..Len(ch)}),
      SetMax({-Inf} \cup {LimitsOf(ch[i].data, norm)[2] : i \in 1..Len(ch)})>>

\* What toggle_norm does to the norm flag and to the normalizer.
NormToggled ==
    /\ mapper'.norm = (IF mapper.norm = "linear" THEN "log" ELSE "linear")
    /\ mapper'.normalizer.kind =
          (IF mapper'.norm = "linear" THEN "Normalize" ELSE "LogNorm")

\* The limits after toggle_norm are those of the children's data, under the
\* new norm, and positive on a log norm.
LimitsRecomputed ==
    /\ <<mapper'.vmin, mapper'.vmax>> = ChildrenLimits(artists', mapper'.norm)
    /\ mapper'.norm = "log" => mapper'.vmin > 0

\* User bounds that autoscale accepts: none, or scalars with the data's unit.
AcceptedBounds ==
    /\ mapper.user_vmin # None => UserUnitCheck(mapper.user_vmin) = "ok"
    /\ mapper.user_vmax # None => UserUnitCheck(mapper.user_vmax) = "ok"

\* C10 as claimed: toggle_norm flips the norm flag (so that two toggles
\* restore it), replaces the normalizer by one of the matching kind, and
\* recomputes vmin/vmax from the data of all children under the new norm
\* (stated for the mappers whose user bounds autoscale accepts).
C10_ToggleNormRecomputes ==
    [][ToggleNorm => (NormToggled /\ (AcceptedBounds => LimitsRecomputed))]_vars

\* The limits after toggle_norm, each on its own: a limit the user did not
\* set is that of the children's data under the new norm (and the lower one
\* is positive on a log norm); a limit the user set is the user's value once
\* a child is registered, and the limit of no data (inf, -inf) with no child.
LimitsRecomputedPerBound ==
    LET lims == ChildrenLimits(artists', mapper'.norm)
    IN  /\ mapper'.vmin = (IF mapper.user_vmin # None /\ artists # <<>>
                           THEN mapper.user_vmin.value ELSE lims[1])
        /\ mapper'.vmax = (IF mapper.user_vmax # None /\ artists # <<>>
                           THEN mapper.user_vmax.value ELSE lims[2])
        /\ (mapper'.norm = "log" /\ mapper.user_vmin = None) => mapper'.vmin > 0

\* C10 as amended: toggle_norm flips the norm flag and replaces the
\* normalizer as claimed, and recomputes from the data of all children under
\* the new norm each limit the user did not set; a limit the user set is the
\* user's value (stated, as the claim, for the mappers whose user bounds
\* autoscale accepts).
C10_ToggleNormRecomputesUnlessUser ==
    [][ToggleNorm =>
         (NormToggled /\ (AcceptedBounds => LimitsRecomputedPerBound))]_vars

\* A toggle to log on a mapper with two children and a user vmin only: the
\* lower limit is the user's, the upper limit is that of the children's
\* data.
C10_Witness ==
    /\ mhist.op = "toggle_norm"
    /\ mhist.err = "ok"
    /\ mapper.user_vmin # None /\ mapper.user_vmax = None
    /\ mapper.norm = "log"
    /\ Len(artists) = 2
    /\ mapper.vmin = mapper.user_vmin.value
    /\ mapper.vmax = ChildrenLimits(artists, "log")[2]
    /\ mapper.vmin < mapper.vmax

\* The limits the normalizer holds are the mapper's.
NormalizerHasLimits(m) ==
    /\ m.normalizer.vmin = {m.vmin}
    /\ m.normalizer.vmax = {m.vmax}

\* C11: after every update() and every toggle_norm() that returns, on a
\* mapper with children that has been updated at least once (its unit is
\* set), normalizer.vmin is the mapper's vmin and normalizer.vmax is the
\* mapper's vmax.
C11_NormalizerCarriesLimits ==
    [][(/\ ToggleNorm \/ \E values \in DataSets : Update(values)
        /\ mapper'.unit # {}
        /\ artists' # <<>>
        /\ mhist'.err = "ok") => NormalizerHasLimits(mapper')]_vars

\* The range of a data array: its smallest and its largest value.
DataRange(values) == <<SetMin(values), SetMax(values)>>

\* The range of `new` lies within the range of `old` and is not the same.
Within(new, old) ==
    /\ DataRange(new) # DataRange(old)
    /\ DataRange(new)[1] >= DataRange(old)[1]
    /\ DataRange(new)[2] <= DataRange(old)[2]

\* Data with more than one value.
Spread(values) == SetMin(values) < SetMax(values)

\* C12: with no user bounds, an update that follows an update refreshes the
\* children's colours when the range of its data is smaller or larger than
\* the range of the data of the update before, and does not when the range is
\* the same (stated for data that hold more than one value).
C12_RefreshOnlyOnRangeChange ==
    [][\A values \in DataSets :
         (/\ Update(values)
          /\ mhist.op = "update"
          /\ Spread(values) /\ Spread(mhist.data)
          /\ NoUserBounds) =>
            /\ DataRange(values) = DataRange(mhist.data) => ~mhist'.refreshed
            /\ Within(values, mhist.data) => mhist'.refreshed
            /\ Within(mhist.data, values) => mhist'.refreshed]_vars

\* A cut of the ClippingPlanes is visible.
SomeCutVisible == \E i \in 1..Len(planes.cuts) : planes.cuts[i].visible

\* C13: after every add-cut, delete-cut and hide/show click, the delete,
\* border-visibility, operation and opacity controls are disabled exactly
\* when no cut is visible, and the opacity of the original clouds is 1.0
\* exactly when no cut is visible and the value of the opacity field
\* otherwise.
C13_ControlsFollowVisibleCuts ==
    phist.clicks =>
        /\ planes.delete_cut.disabled = ~SomeCutVisible
        /\ planes.cut_borders_visibility.disabled = ~SomeCutVisible
        /\ planes.cut_operation.disabled = ~SomeCutVisible
        /\ planes.opacity.disabled = ~SomeCutVisible
        /\ planes_view.opacity =
              (IF SomeCutVisible THEN planes.opacity.value ELSE FullOpacity)

\* The points of original node n that the visible cuts select together: with
\* OR those inside some cut, with AND those inside every cut, with XOR those
\* inside an odd number of cuts.
Selected(n) ==
    LET inside(pt) ==
            {i \in 1..Len(planes.cuts) :
                /\ planes.cuts[i].visible
                /\ pt \in InRange(Points[n], planes.cuts[i])}
        shown == {i \in 1..Len(planes.cuts) : planes.cuts[i].visible}
    IN  {pt \in Points[n] :
            CASE planes._operation = "or"  -> inside(pt) # {}
              [] planes._operation = "and" -> inside(pt) = shown
              [] planes._operation = "xor" -> Cardinality(inside(pt)) % 2 = 1}

\* The clouds of a view without their ids.
Shown(clouds) == {[node |-> c.node, points |-> c.points] : c \in clouds}

\* C14: after every handler that ends in update_state, the view holds exactly
\* one cut cloud, with the combined selection of the visible cuts, for each
\* original node whose selection is not empty, and none for any other node
\* nor when no cut is visible; a second update_state changes nothing.
C14_UpdateStateCombinesVisibleCuts ==
    phist.updated =>
        /\ \A n \in DOMAIN Points :
              LET clouds == {c \in planes_view.clouds : c.node = n}
              IN  IF SomeCutVisible /\ Selected(n) # {}
                  THEN /\ Cardinality(clouds) = 1
                       /\ \A c \in clouds : c.points = Selected(n)
                  ELSE clouds = {}
        /\ Shown(update_state(planes, planes_view).v.clouds)
              = Shown(planes_view.clouds)
        /\ update_state(planes, planes_view).p._nodes = planes._nodes

\* Two visible cuts, along x and along y, that both select a point of node a
\* and of which one selects a point of node b: after a change to XOR the
\* view shows the combined selection, a cloud for node b only.
C14_Witness ==
    /\ phist.updated
    /\ planes._operation = "xor"
    /\ Len(planes.cuts) = 2
    /\ planes.cuts[1].visible /\ planes.cuts[2].visible
    /\ planes.cuts[1].direction # planes.cuts[2].direction
    /\ InRange(Points["a"], planes.cuts[1]) # {}
    /\ InRange(Points["a"], planes.cuts[2]) # {}
    /\ Cardinality(planes_view.clouds) = 1
    /\ \A c \in planes_view.clouds : c.node = "b" /\ c.points = Selected("b")

\* A cut of the TriCutTool is inactive: it is the disabled placeholder, or its
\* eye button hid it (which disables its slider).
Inactive(cut) == cut.disabled \/ cut.slider.disabled

AllInactive == \A i \in 1..Len(tricut.cuts) : Inactive(tricut.cuts[i])

\* C15: after every add-cut, delete-cut and eye-button click of a TriCutTool
\* the original clouds have opacity 1.0 exactly when every cut is inactive,
\* and the opacity field is disabled exactly then.
C15_OpacityFollowsActiveCuts ==
    thist.clicks =>
        /\ (fig.opacity = FullOpacity) = AllInactive
        /\ tricut.opacity.disabled = AllInactive

\* The points of a data array that one of its masks marks.
MaskedPoints(data) == {i \in PointIndex : \E m \in data.masks : m[i]}

\* C16: after construction and after every update() the points of the
\* Scatter artist sit at the positions of its most recent data, the mask
\* overlay marks exactly the points that are masked in that data, and the
\* overlay is hidden when that data has no masks.
C16_UpdateFollowsPositionsAndMasks ==
    scatter_artist # None =>
        LET data == scatter_artist._data
        IN  /\ \A i \in PointIndex :
                  scatter_artist._scatter.offsets[i] = {<<data.x[i], data.y[i]>>}
            /\ data.masks # {} =>
                  /\ scatter_artist._mask.visible
                  /\ \A i \in PointIndex :
                        scatter_artist._mask.offsets[i] =
                           (IF i \in MaskedPoints(data)
                            THEN {<<data.x[i], data.y[i]>>} ELSE {})
            /\ data.masks = {} => ~scatter_artist._mask.visible

\* C17: scatter() with a float size succeeds and gives every marker that
\* size; with a coordinate name the marker sizes are the values of that
\* coordinate.
C17_SizeFloatOrCoordinate ==
    /\ (shist.op = "scatter" /\ shist.size.kind = "float") =>
          /\ shist.err = "ok"
          /\ scatter_artist # None
          /\ \A i \in 1..Len(scatter_artist._scatter.sizes) :
                scatter_artist._scatter.sizes[i] = shist.size.value
    /\ (shist.op = "scatter" /\ shist.size.kind = "str") =>
          /\ shist.err = "ok"
          /\ scatter_artist._scatter.sizes
                = scatter_artist._data[shist.size.value]

\* The view limits of axis xy.
ViewOf(a, xy) == IF xy = "x" THEN a.xlim ELSE a.ylim

\* C18: crop sets, on each axis named in the call, the lower view limit to
\* 'min' when it is given and the upper view limit to 'max' when it is
\* given, in the unit of the axis, and leaves the other end and the axes not
\* named as they were.
C18_CropSetsGivenLimits ==
    [][\A limits \in CropArgs :
         Crop(limits) =>
            \A xy \in {"x", "y"} :
               IF xy \in DOMAIN limits
               THEN /\ ViewOf(ax', xy)[1] =
                         (IF "min" \in DOMAIN limits[xy]
                          THEN UserNumber(limits[xy].min) ELSE ViewOf(ax, xy)[1])
                    /\ ViewOf(ax', xy)[2] =
                         (IF "max" \in DOMAIN limits[xy]
                          THEN UserNumber(limits[xy].max) ELSE ViewOf(ax, xy)[2])
               ELSE ViewOf(ax', xy) = ViewOf(ax, xy)]_vars

\* The slice node made for the point whose artist carries `nodeid`: the
\* node made right after its event node.
SliceNodeOf(nodeid) == nodeid + 1

\* The spectrum of the pixel that holds position pos.
SpectrumAt(pos) ==
    LET i == CHOOSE k \in {1, 2} : 2 * (k - 1) <= pos[1] /\ pos[1] < 2 * k
        j == CHOOSE k \in {1, 2} : 2 * (k - 1) <= pos[2] /\ pos[2] < 2 * k
    IN  DataArray3d[i][j]

\* C19: when an existing point is moved, update_node gives the event node of
\* that point a func that returns the new position, the 1d figure receives
\* one update, for the slice node of that point, whose artist then shows the
\* slice at the position of this move event, and the artists of the other
\* points are left as they were.
C19_MoveRecomputesOnlyThatSlice ==
    [][\A nodeid \in 1..(2 * MaxPoints), pos \in Positions :
         UpdateNode(nodeid, pos) =>
            /\ handler'._event_nodes[nodeid].func = pos
            /\ ihist'.received = {SliceNodeOf(nodeid)}
            /\ fig1d'.artists[SliceNodeOf(nodeid)].data = SpectrumAt(pos)
            /\ \A key \in DOMAIN fig1d.artists \ {SliceNodeOf(nodeid)} :
                  fig1d'.artists[key] = fig1d.artists[key]]_vars

\* With three points made, one of them removed, a point has been moved to a
\* pixel other than that of another live point, and its slice has changed
\* with it.
C19_Witness ==
    /\ ihist.op = "update_node"
    /\ Cardinality(DOMAIN handler._event_nodes) = 3
    /\ Cardinality(handler.points) = 2
    /\ ihist.received = {SliceNodeOf(ihist.nodeid)}
    /\ \E other \in handler.points \ {ihist.nodeid} :
          fig1d.artists[SliceNodeOf(other)].data
             # fig1d.artists[SliceNodeOf(ihist.nodeid)].data
====
